---- MODULE Spec2Model ----
(***************************************************************************)
(* A model of mcp_server.py: the web_search and get_website tools of the   *)
(* whoogle-web-search MCP server, and the text helpers of HelpFunctions.   *)
(*                                                                         *)
(* Text is a sequence of characters.  A character is a short string; the   *)
(* alphabet holds one representative of each class the code tells apart:   *)
(*   "a", "q"   ordinary letters                                           *)
(*   " ", "\t"  whitespace (str.isspace, the regex class \s)               *)
(*   "(c)"      U+00A9, category So, unchanged by NFKC                     *)
(*   "(tm)"     U+2122, category So, which NFKC rewrites to "TM"           *)
(*   "<br>"     a markup tag: it ends one text node and starts the next    *)
(***************************************************************************)
EXTENDS Integers, Sequences, FiniteSets, TLC

VARIABLES
    \* one entry per tool invocation the host is serving
    pc, tool, query, url, payload, n, idx, returned, raised, calls,
    search_reply, page_replies,
    \* the text helpers applied to one input
    tx_text, tx_limit, tx_op, tx_out, tx_again

inv_vars == <<pc, tool, query, url, payload, n, idx, returned, raised, calls,
              search_reply, page_replies>>
tx_vars == <<tx_text, tx_limit, tx_op, tx_out, tx_again>>
vars == <<inv_vars, tx_vars>>

----------------------------------------------------------------------------
(* Program constants *)

PAGE_CONTENT_WORDS_LIMIT == 1000
MAX_LINKS_IN_RESPONSE == 3
EXCERPT_MAX_LENGTH == 200

(* Bounds of the model *)

MaxLen == 4
MaxLimit == 3
MaxResults == 4
NumInvocations == 2

----------------------------------------------------------------------------
(* Characters *)

TAG == "<br>"
Spaces == {" ", "\t"}
OtherSymbols == {"(c)", "(tm)"}

\* str.isspace / \s
IsSpace(c) == c \in Spaces

\* unicodedata.category(c).startswith("So")
IsSo(c) == c \in OtherSymbols

Min(a, b) == IF a < b THEN a ELSE b

RECURSIVE SelectNot(_, _)
\* the characters of s that are not in the set drop, in order
SelectNot(s, drop) ==
    IF s = <<>> THEN <<>>
    ELSE IF Head(s) \in drop THEN SelectNot(Tail(s), drop)
         ELSE <<Head(s)>> \o SelectNot(Tail(s), drop)

RECURSIVE LStrip(_)
LStrip(s) == IF s # <<>> /\ IsSpace(Head(s)) THEN LStrip(Tail(s)) ELSE s

RECURSIVE RStrip(_)
RStrip(s) ==
    IF s # <<>> /\ IsSpace(s[Len(s)]) THEN RStrip(SubSeq(s, 1, Len(s) - 1)) ELSE s

\* str.strip()
strip(s) == RStrip(LStrip(s))

RECURSIVE SplitOn(_, _, _)
\* the pieces of s between the characters of seps, the empty pieces included;
\* cur is the piece being read
SplitOn(s, seps, cur) ==
    IF s = <<>> THEN <<cur>>
    ELSE IF Head(s) \in seps THEN <<cur>> \o SplitOn(Tail(s), seps, <<>>)
         ELSE SplitOn(Tail(s), seps, Append(cur, Head(s)))

RECURSIVE NonEmpty(_)
NonEmpty(pieces) ==
    IF pieces = <<>> THEN <<>>
    ELSE IF Head(pieces) = <<>> THEN NonEmpty(Tail(pieces))
         ELSE <<Head(pieces)>> \o NonEmpty(Tail(pieces))

RECURSIVE StripEach(_)
StripEach(pieces) ==
    IF pieces = <<>> THEN <<>>
    ELSE <<strip(Head(pieces))>> \o StripEach(Tail(pieces))

\* str.split(): the maximal runs of non-whitespace characters
split(s) == NonEmpty(SplitOn(s, Spaces, <<>>))

RECURSIVE join(_, _)
\* sep.join(pieces)
join(sep, pieces) ==
    IF pieces = <<>> THEN <<>>
    ELSE IF Len(pieces) = 1 THEN Head(pieces)
         ELSE Head(pieces) \o sep \o join(sep, Tail(pieces))

\* BeautifulSoup(markup, "html.parser").get_text(separator=" ", strip=True):
\* every text node stripped, the empty ones skipped, joined by the separator
get_text(markup) == join(<<" ">>, NonEmpty(StripEach(SplitOn(markup, {TAG}, <<>>))))

RECURSIVE normalize_NFKC(_)
\* unicodedata.normalize("NFKC", text): the compatibility character U+2122
\* becomes the letters T, M; the other characters of the alphabet are stable
normalize_NFKC(s) ==
    IF s = <<>> THEN <<>>
    ELSE (IF Head(s) = "(tm)" THEN <<"T", "M">> ELSE <<Head(s)>>)
         \o normalize_NFKC(Tail(s))

RECURSIVE collapse_ws(_)
\* re.sub(r"\s+", " ", text)
collapse_ws(s) ==
    IF s = <<>> THEN <<>>
    ELSE IF IsSpace(Head(s)) THEN <<" ">> \o collapse_ws(LStrip(s))
         ELSE <<Head(s)>> \o collapse_ws(Tail(s))

\* HelpFunctions.remove_emojis
remove_emojis(text) == SelectNot(text, OtherSymbols)

\* HelpFunctions.format_text
format_text(original_text) ==
    LET t1 == get_text(original_text)
        t2 == normalize_NFKC(t1)
        t3 == collapse_ws(t2)
        t4 == strip(t3)
    IN  remove_emojis(t4)

\* truncate_to_n_words with tokens[:token_limit + 1]
truncate_one_word_more(text, token_limit) ==
    LET tokens == split(text)
        truncated_tokens == SubSeq(tokens, 1, Min(token_limit + 1, Len(tokens)))
    IN  join(<<" ">>, truncated_tokens)

\* HelpFunctions.truncate_to_n_words, for token_limit >= 0
truncate_to_n_words(text, token_limit) ==
    LET tokens == split(text)
        truncated_tokens == SubSeq(tokens, 1, Min(token_limit, Len(tokens)))
    IN  join(<<" ">>, truncated_tokens)

\* HelpFunctions.generate_excerpt
generate_excerpt(content, max_length) ==
    IF Len(content) > max_length
    THEN SubSeq(content, 1, max_length) \o <<".", ".", ".">>
    ELSE content

----------------------------------------------------------------------------
(* Values *)

RECURSIVE ToStr(_)
\* a text as one string
ToStr(s) == IF s = <<>> THEN "" ELSE Head(s) \o ToStr(Tail(s))

\* json.dumps / json.loads: a JSON document is kept as the value it encodes,
\* tagged so that it is a document and not the value
json_dumps(v) == <<"json", v>>
json_loads(doc) == doc[2]

\* d[k] = v on a dict
dict_set(d, k, v) == [x \in (DOMAIN d) \cup {k} |-> IF x = k THEN v ELSE d[x]]

\* del d[k] on a dict that has the key
dict_del(d, k) == [x \in (DOMAIN d) \ {k} |-> d[x]]

\* the outcome of a call: a value returned or an exception raised
Return(v) == [ok |-> TRUE, val |-> v, exc |-> "", msg |-> ""]
Raise(e, m) == [ok |-> FALSE, val |-> <<>>, exc |-> e, msg |-> m]

----------------------------------------------------------------------------
(* The page request of get_website: requests.get and raise_for_status *)

\* the exceptions of requests that derive from RequestException
RequestExceptions == {"ReadTimeout", "ConnectionError", "HTTPError"}

\* requests.get(url, headers=HEADERS, timeout=120): the response, or the
\* transport's exception
requests_get(reply) ==
    IF reply.kind = "exc" THEN Raise(reply.exc, reply.msg) ELSE Return(reply)

\* Response.raise_for_status of requests: HTTPError for 4xx and 5xx only
requests_raise_for_status(response) ==
    IF 400 <= response.status /\ response.status < 500
    THEN Raise("HTTPError", ToString(response.status) \o " Client Error")
    ELSE IF 500 <= response.status /\ response.status < 600
         THEN Raise("HTTPError", ToString(response.status) \o " Server Error")
         ELSE Return(response)

\* soup.get_text(separator=" ", strip=True) of the parsed page: the title's
\* text node, when it has one, then the body's
soup_get_text(doc) ==
    get_text(IF doc.title = "string" THEN doc.title_text \o <<TAG>> \o doc.body
             ELSE doc.body)

\* lines 117-143, the body of the try block of get_website
get_website_try(u, reply) ==
    LET got == requests_get(reply) IN
    IF ~got.ok THEN got
    ELSE LET checked == requests_raise_for_status(got.val) IN
    IF ~checked.ok THEN checked
    ELSE LET doc == got.val.doc IN
    \* soup.title.string is None for a title element without a single string
    \* child, and None has no strip()
    IF doc.title = "nostring"
    THEN Raise("AttributeError", "'NoneType' object has no attribute 'strip'")
    ELSE LET page_title == IF doc.title = "string" THEN doc.title_text
                           ELSE <<"No", " ", "title", " ", "found">>
             title_site == remove_emojis(normalize_NFKC(strip(page_title)))
             content_site == format_text(soup_get_text(doc))
             truncated_content ==
                 truncate_to_n_words(content_site, PAGE_CONTENT_WORDS_LIMIT)
         IN  Return([title |-> ToStr(title_site),
                     url |-> u,
                     content |-> ToStr(truncated_content),
                     excerpt |-> ToStr(generate_excerpt(content_site,
                                                        EXCERPT_MAX_LENGTH))])

\* which exceptions the except clause of get_website catches
get_website_catches(e) == e \in RequestExceptions

\* get_website(url): the JSON it returns, or the exception that leaves it
get_website(u, reply) ==
    LET body == get_website_try(u, reply) IN
    IF body.ok THEN Return(json_dumps(<<body.val>>))
    ELSE IF get_website_catches(body.exc)
         THEN Return(json_dumps(<<[url |-> u,
                                   content |-> "Failed to retrieve the page. Error: "
                                               \o body.msg]>>))
         ELSE body

----------------------------------------------------------------------------
(* The search request: _perform_search *)

\* Response.raise_for_status of httpx: HTTPStatusError unless 2xx
httpx_raise_for_status(response) ==
    IF 200 <= response.status /\ response.status < 300 THEN Return(response)
    ELSE Raise("HTTPStatusError", ToString(response.status))

\* _perform_search with the failure caught and an empty result list returned
perform_search_swallowing(reply) ==
    IF reply.kind = "exc" \/ ~httpx_raise_for_status(reply).ok
    THEN Return([results |-> <<>>])
    ELSE Return(reply.json)

\* _perform_search(query): the decoded JSON body, or the exception
_perform_search(reply) ==
    IF reply.kind = "exc" THEN Raise(reply.exc, reply.msg)
    ELSE LET checked == httpx_raise_for_status(reply) IN
         IF ~checked.ok THEN checked ELSE Return(reply.json)

----------------------------------------------------------------------------
(* web_search, line by line *)

\* line 163 as "if not query"
query_is_empty_unstripped(q) == q = <<>>

\* line 163: not query or not query.strip()
query_is_empty(q) == q = <<>> \/ strip(q) = <<>>

\* line 167
links_to_fetch(pl) == Min(Len(pl["results"]), MAX_LINKS_IN_RESPONSE)

\* lines 169-171, one turn of the loop for the 0-based index i: the payload
\* after it, or the exception that leaves web_search
loop_body(pl, i, reply) ==
    LET result == pl["results"][i + 1] IN
    IF "href" \notin DOMAIN result THEN Raise("KeyError", "href")
    ELSE LET page == get_website(result["href"], reply) IN
    IF ~page.ok THEN page
    ELSE LET content == json_loads(page.val)[1]["content"]
             with_text == dict_set(result, "text", content)
         IN  IF "content" \notin DOMAIN with_text THEN Raise("KeyError", "content")
             ELSE Return([pl EXCEPT !["results"][i + 1] = dict_del(with_text, "content")])

\* line 172 left out
keep_all(pl, k) == pl

\* line 172
keep_first(pl, k) == [pl EXCEPT !["results"] = SubSeq(pl["results"], 1, k)]

----------------------------------------------------------------------------
(* The network calls an invocation makes, in the order of their events *)

Issue(call, arg) == [ev |-> "issue", call |-> call, arg |-> arg]
Done(call, arg) == [ev |-> "done", call |-> call, arg |-> arg]

\* the request sent again after it ended
page_call_retried(u) ==
    <<Issue("page", u), Done("page", u), Issue("page", u), Done("page", u)>>

\* get_website's one blocking requests.get: issued and awaited in place
page_call(u) == <<Issue("page", u), Done("page", u)>>

----------------------------------------------------------------------------
(* What the host and the network can hand to an invocation *)

Invs == 1 .. NumInvocations

\* the query strings a caller passes: empty, whitespace only, one to trim
Queries == { <<>>, <<" ", "\t">>, <<" ", "q", "\t">> }
FewQueries == { <<>>, <<" ", "q", "\t">> }

\* the j-th result of the backend; odd names the key it lacks, if any
SearchResult(j, odd) ==
    LET title == "t" \o ToString(j)
        link == "http://site" \o ToString(j)
        snippet == "snippet" \o ToString(j)
    IN  IF odd = "no_content"
        THEN [title |-> title, href |-> link, snippet |-> snippet]
        ELSE IF odd = "no_href"
             THEN [title |-> title, url |-> link, content |-> snippet]
             ELSE [title |-> title, href |-> link, content |-> snippet]

\* k results, the one at position at (1-based, 0 for none) of the odd shape
ResultList(k, at, odd) ==
    [j \in 1 .. k |-> SearchResult(j, IF j = at THEN odd ELSE "plain")]

ResultLists ==
    { ResultList(k, 0, "plain") : k \in 0 .. MaxResults }
    \cup { ResultList(b[1], b[2], odd) :
             b \in { c \in (1 .. MaxResults) \X (1 .. MaxResults) : c[2] <= c[1] },
             odd \in {"no_content", "no_href"} }

FewResultLists ==
    { ResultList(k, 0, "plain") : k \in 0 .. 2 } \cup { ResultList(2, 2, "no_content") }

SearchFailures ==
    { [kind |-> "response", status |-> st, json |-> <<>>] : st \in {302, 404, 500} }
    \cup { [kind |-> "exc", exc |-> "ConnectTimeout", msg |-> "timed out"],
           [kind |-> "exc", exc |-> "ConnectError", msg |-> "connection refused"] }

\* the backend's replies to the query string q: its JSON repeats the query
SearchReplies(q) ==
    { [kind |-> "response", status |-> 200, json |-> [query |-> q, results |-> rl]] :
        rl \in ResultLists }
    \cup SearchFailures

FewSearchReplies(q) ==
    { [kind |-> "response", status |-> 200, json |-> [query |-> q, results |-> rl]] :
        rl \in FewResultLists }
    \cup { [kind |-> "response", status |-> 500, json |-> <<>>] }

\* pages: one with a title and a symbol between two spaces, one without a
\* title element, one whose title element holds no string
PageWithTitle ==
    [title |-> "string", title_text |-> <<" ", "T", "(c)">>,
     body |-> <<"a", " ", "(c)", " ", "a", "<br>", "\t", "(tm)">>]
PageNoTitle ==
    [title |-> "absent", title_text |-> <<>>, body |-> <<"a", "\t", " ", "q">>]
PageEmptyTitle ==
    [title |-> "nostring", title_text |-> <<>>, body |-> <<"a">>]

PageReplies ==
    { [kind |-> "response", status |-> 200, doc |-> d] :
        d \in {PageWithTitle, PageNoTitle, PageEmptyTitle} }
    \cup { [kind |-> "response", status |-> st, doc |-> PageNoTitle] :
             st \in {304, 404, 500} }
    \cup { [kind |-> "exc", exc |-> "ReadTimeout", msg |-> "Read timed out."],
           [kind |-> "exc", exc |-> "ConnectionError", msg |-> "Connection refused"] }

FewPageReplies ==
    { [kind |-> "response", status |-> 200, doc |-> PageWithTitle],
      [kind |-> "response", status |-> 200, doc |-> PageEmptyTitle],
      [kind |-> "exc", exc |-> "ReadTimeout", msg |-> "Read timed out."] }

Urls == { "http://example.com" }

NoReply == [kind |-> "none"]

----------------------------------------------------------------------------
(* The invocations *)

\* payload as a module-level global, the same for every invocation
bind_payload_global(pl, i, v) == [j \in DOMAIN pl |-> v]

\* payload = value, the local variable of invocation i
bind_payload(pl, i, v) == [pl EXCEPT ![i] = v]

InvInit ==
    /\ pc = [i \in Invs |-> "idle"]
    /\ tool = [i \in Invs |-> "none"]
    /\ query = [i \in Invs |-> <<>>]
    /\ url = [i \in Invs |-> ""]
    /\ payload = [i \in Invs |-> <<>>]
    /\ n = [i \in Invs |-> 0]
    /\ idx = [i \in Invs |-> 0]
    /\ returned = [i \in Invs |-> <<>>]
    /\ raised = [i \in Invs |-> ""]
    /\ calls = [i \in Invs |-> <<>>]
    /\ search_reply = [i \in Invs |-> NoReply]
    /\ page_replies = [i \in Invs |-> <<>>]

TxIdle ==
    /\ tx_text = <<>>
    /\ tx_limit = 0
    /\ tx_op = "none"
    /\ tx_out = <<>>
    /\ tx_again = <<>>

\* lines 163-166, to the await of _perform_search: the query is validated,
\* and the search request is sent with the stripped query
CallWebSearch(i, q) ==
    /\ pc[i] = "idle"
    /\ tool' = [tool EXCEPT ![i] = "web_search"]
    /\ query' = [query EXCEPT ![i] = q]
    /\ IF query_is_empty(q)
       THEN /\ raised' = [raised EXCEPT ![i] = "ValueError"]
            /\ pc' = [pc EXCEPT ![i] = "failed"]
            /\ calls' = calls
       ELSE /\ calls' = [calls EXCEPT ![i] = Append(@, Issue("search", ToStr(strip(q))))]
            /\ pc' = [pc EXCEPT ![i] = "searching"]
            /\ raised' = raised
    /\ UNCHANGED <<url, payload, n, idx, returned, search_reply, page_replies, tx_vars>>

\* lines 100-103 and 166-167: the search request ends; its failure leaves
\* web_search, its JSON becomes the payload
SearchEnds(i, reply) ==
    /\ pc[i] = "searching"
    /\ search_reply' = [search_reply EXCEPT ![i] = reply]
    /\ calls' = [calls EXCEPT ![i] = Append(@, Done("search", ToStr(strip(query[i]))))]
    /\ LET found == _perform_search(reply) IN
       IF found.ok
       THEN /\ payload' = bind_payload(payload, i, found.val)
            /\ n' = [n EXCEPT ![i] = links_to_fetch(found.val)]
            /\ idx' = [idx EXCEPT ![i] = 0]
            /\ pc' = [pc EXCEPT ![i] = "loop"]
            /\ raised' = raised
       ELSE /\ raised' = [raised EXCEPT ![i] = found.exc]
            /\ pc' = [pc EXCEPT ![i] = "failed"]
            /\ UNCHANGED <<payload, n, idx>>
    /\ UNCHANGED <<tool, query, url, returned, page_replies, tx_vars>>

\* the calls of one turn of the loop: none when the result has no "href"
loop_calls(pl, i) ==
    LET result == pl["results"][i + 1] IN
    IF "href" \in DOMAIN result THEN page_call(result["href"]) ELSE <<>>

\* lines 168-171: one turn of the loop
FetchPage(i, reply) ==
    /\ pc[i] = "loop"
    /\ idx[i] < n[i]
    /\ calls' = [calls EXCEPT ![i] = @ \o loop_calls(payload[i], idx[i])]
    /\ page_replies' = [page_replies EXCEPT ![i] =
            IF loop_calls(payload[i], idx[i]) = <<>> THEN @ ELSE Append(@, reply)]
    /\ LET turn == loop_body(payload[i], idx[i], reply) IN
       IF turn.ok
       THEN /\ payload' = bind_payload(payload, i, turn.val)
            /\ idx' = [idx EXCEPT ![i] = @ + 1]
            /\ UNCHANGED <<pc, raised>>
       ELSE /\ raised' = [raised EXCEPT ![i] = turn.exc]
            /\ pc' = [pc EXCEPT ![i] = "failed"]
            /\ UNCHANGED <<payload, idx>>
    /\ UNCHANGED <<tool, query, url, n, returned, search_reply, tx_vars>>

\* lines 172-174: the loop is over
ReturnResponse(i) ==
    /\ pc[i] = "loop"
    /\ idx[i] = n[i]
    /\ payload' = bind_payload(payload, i, keep_first(payload[i], n[i]))
    /\ returned' = [returned EXCEPT ![i] = json_dumps(keep_first(payload[i], n[i]))]
    /\ pc' = [pc EXCEPT ![i] = "done"]
    /\ UNCHANGED <<tool, query, url, n, idx, raised, calls, search_reply,
                   page_replies, tx_vars>>

\* lines 105-153: the get_website tool called by the host
CallGetWebsite(i, u, reply) ==
    /\ pc[i] = "idle"
    /\ tool' = [tool EXCEPT ![i] = "get_website"]
    /\ url' = [url EXCEPT ![i] = u]
    /\ calls' = [calls EXCEPT ![i] = @ \o page_call(u)]
    /\ page_replies' = [page_replies EXCEPT ![i] = Append(@, reply)]
    /\ LET page == get_website(u, reply) IN
       IF page.ok
       THEN /\ returned' = [returned EXCEPT ![i] = page.val]
            /\ pc' = [pc EXCEPT ![i] = "done"]
            /\ raised' = raised
       ELSE /\ raised' = [raised EXCEPT ![i] = page.exc]
            /\ pc' = [pc EXCEPT ![i] = "failed"]
            /\ returned' = returned
    /\ UNCHANGED <<query, payload, n, idx, search_reply, tx_vars>>

\* the host hands the result or the error to the caller; nothing of the
\* invocation is kept
Deliver(i) ==
    /\ pc[i] \in {"done", "failed"}
    /\ pc' = [pc EXCEPT ![i] = "idle"]
    /\ tool' = [tool EXCEPT ![i] = "none"]
    /\ query' = [query EXCEPT ![i] = <<>>]
    /\ url' = [url EXCEPT ![i] = ""]
    /\ payload' = [payload EXCEPT ![i] = <<>>]
    /\ n' = [n EXCEPT ![i] = 0]
    /\ idx' = [idx EXCEPT ![i] = 0]
    /\ returned' = [returned EXCEPT ![i] = <<>>]
    /\ raised' = [raised EXCEPT ![i] = ""]
    /\ calls' = [calls EXCEPT ![i] = <<>>]
    /\ search_reply' = [search_reply EXCEPT ![i] = NoReply]
    /\ page_replies' = [page_replies EXCEPT ![i] = <<>>]
    /\ UNCHANGED tx_vars

\* no other invocation is being served
Alone(i) == \A j \in Invs \ {i} : pc[j] = "idle"

----------------------------------------------------------------------------
(* One invocation at a time, every input *)

Init == InvInit /\ TxIdle

Next ==
    \E i \in Invs :
        \/ \E q \in Queries : Alone(i) /\ CallWebSearch(i, q)
        \/ \E r \in SearchReplies(ToStr(strip(query[i]))) : SearchEnds(i, r)
        \/ \E r \in PageReplies : FetchPage(i, r)
        \/ ReturnResponse(i)
        \/ \E u \in Urls, r \in PageReplies : Alone(i) /\ CallGetWebsite(i, u, r)
        \/ Deliver(i)

Spec == Init /\ [][Next]_vars

(* Concurrent invocations, fewer inputs *)

NextConcurrent ==
    \E i \in Invs :
        \/ \E q \in FewQueries : CallWebSearch(i, q)
        \/ \E r \in FewSearchReplies(ToStr(strip(query[i]))) : SearchEnds(i, r)
        \/ \E r \in FewPageReplies : FetchPage(i, r)
        \/ ReturnResponse(i)
        \/ \E u \in Urls, r \in FewPageReplies : CallGetWebsite(i, u, r)
        \/ Deliver(i)

SpecConcurrent == Init /\ [][NextConcurrent]_vars

----------------------------------------------------------------------------
(* The text helpers on every text of up to MaxLen characters *)

Alphabet == {"a", " ", "\t", "(c)", "(tm)", TAG}

Texts == UNION { [1 .. k -> Alphabet] : k \in 0 .. MaxLen }

InitText ==
    /\ InvInit
    /\ tx_text \in Texts
    /\ tx_limit \in 0 .. MaxLimit
    /\ tx_op = "none"
    /\ tx_out = <<>>
    /\ tx_again = <<>>

\* truncate_to_n_words(text, limit)
Truncate ==
    /\ tx_op = "none"
    /\ tx_out' = truncate_to_n_words(tx_text, tx_limit)
    /\ tx_op' = "truncate"
    /\ UNCHANGED <<tx_text, tx_limit, tx_again, inv_vars>>

\* truncate_to_n_words of the truncated text
TruncateAgain ==
    /\ tx_op = "truncate"
    /\ tx_again' = truncate_to_n_words(tx_out, tx_limit)
    /\ tx_op' = "truncate_twice"
    /\ UNCHANGED <<tx_text, tx_limit, tx_out, inv_vars>>

\* format_text(text)
FormatText ==
    /\ tx_op = "none"
    /\ tx_out' = format_text(tx_text)
    /\ tx_op' = "format"
    /\ UNCHANGED <<tx_text, tx_limit, tx_again, inv_vars>>

\* format_text of the formatted text
FormatTextAgain ==
    /\ tx_op = "format"
    /\ tx_again' = format_text(tx_out)
    /\ tx_op' = "format_twice"
    /\ UNCHANGED <<tx_text, tx_limit, tx_out, inv_vars>>

NextText == Truncate \/ TruncateAgain \/ FormatText \/ FormatTextAgain

SpecText == InitText /\ [][NextText]_vars

----------------------------------------------------------------------------
(* Words of a text, by position *)

WordStarts(s) ==
    { p \in 1 .. Len(s) : ~IsSpace(s[p]) /\ (p = 1 \/ IsSpace(s[p - 1])) }
WordEnds(s) ==
    { p \in 1 .. Len(s) : ~IsSpace(s[p]) /\ (p = Len(s) \/ IsSpace(s[p + 1])) }
WordCount(s) == Cardinality(WordStarts(s))
Kth(ps, k) == CHOOSE p \in ps : Cardinality({ r \in ps : r <= p }) = k
Word(s, k) == SubSeq(s, Kth(WordStarts(s), k), Kth(WordEnds(s), k))

\* words separated by exactly one " ", nothing before the first or after the last
SingleSpaced(s) ==
    /\ \A p \in 1 .. Len(s) : IsSpace(s[p]) =>
          /\ s[p] = " "
          /\ p > 1 /\ p < Len(s)
          /\ ~IsSpace(s[p - 1]) /\ ~IsSpace(s[p + 1])

----------------------------------------------------------------------------
(* What the claims speak of *)

WebSearches == { i \in Invs : tool[i] = "web_search" }
PageFetches == { i \in Invs : tool[i] = "get_website" }
Ended(i) == pc[i] \in {"done", "failed"}

\* empty, or whitespace only
Blank(q) == \A p \in 1 .. Len(q) : IsSpace(q[p])

Is2xx(r) == r.kind = "response" /\ 200 <= r.status /\ r.status < 300
\* a connection error, a timeout or a status that is not 2xx
RequestFailed(r) == r.kind = "exc" \/ (r.kind = "response" /\ ~Is2xx(r))

\* the results the backend sent to invocation i, and the number it selects
BackendResults(i) == search_reply[i].json["results"]
Selected(i) == Min(Len(BackendResults(i)), MAX_LINKS_IN_RESPONSE)

\* the response of a web_search that returned
Response(i) == json_loads(returned[i])

PageIssues(log) == { p \in 1 .. Len(log) : log[p].ev = "issue" /\ log[p].call = "page" }
SearchIssues(log) == { p \in 1 .. Len(log) : log[p].ev = "issue" /\ log[p].call = "search" }

FailureText(u, r) ==
    "Failed to retrieve the page. Error: "
    \o (IF r.kind = "exc" THEN r.msg
        ELSE ToString(r.status) \o
             (IF r.status < 500 THEN " Client Error" ELSE " Server Error"))

----------------------------------------------------------------------------
\* C1: a web_search whose query is empty or whitespace only fails with the
\* invalid-argument error (ValueError) and has issued no network call: no
\* search request and no page fetch, and it returns nothing.
C1_BlankQueryFailsWithoutCalls ==
    \A i \in WebSearches :
        Blank(query[i]) =>
            /\ pc[i] = "failed"
            /\ raised[i] = "ValueError"
            /\ calls[i] = <<>>
            /\ search_reply[i] = NoReply
            /\ page_replies[i] = <<>>
            /\ returned[i] = <<>>

C1_Witness ==
    \E i \in WebSearches :
        /\ query[i] = <<" ", "\t">>
        /\ pc[i] = "failed"
        /\ raised[i] = "ValueError"

\* C2: a web_search that returned, the backend having sent k results, returns
\* exactly min(k, MAX_LINKS_IN_RESPONSE) results, and they are the first
\* results of the backend in the backend's order (same title and link at each
\* position).
C2_FirstResultsInOrder ==
    \A i \in WebSearches :
        pc[i] = "done" =>
            LET out == Response(i)["results"] IN
            /\ Len(out) = Min(Len(BackendResults(i)), MAX_LINKS_IN_RESPONSE)
            /\ \A j \in 1 .. Len(out) :
                  /\ out[j]["title"] = BackendResults(i)[j]["title"]
                  /\ out[j]["href"] = BackendResults(i)[j]["href"]

C2_Witness ==
    \E i \in WebSearches :
        /\ pc[i] = "done"
        /\ Len(BackendResults(i)) > MAX_LINKS_IN_RESPONSE
        /\ Len(Response(i)["results"]) = MAX_LINKS_IN_RESPONSE

\* C3: whatever the outcome of each page fetch, a web_search whose search
\* succeeded (with results that carry "href" and "content") returns a response
\* with all the selected entries, the entry of a failed fetch holding the
\* error string as its text.
C3_BadPageNeverAborts ==
    \A i \in WebSearches :
        ( /\ Ended(i)
          /\ Is2xx(search_reply[i])
          /\ \A j \in 1 .. Selected(i) :
                {"href", "content"} \subseteq DOMAIN BackendResults(i)[j] )
        => /\ pc[i] = "done"
           /\ Len(Response(i)["results"]) = Selected(i)
           /\ \A j \in 1 .. Selected(i) :
                 RequestFailed(page_replies[i][j]) =>
                     Response(i)["results"][j]["text"]
                         = FailureText(BackendResults(i)[j]["href"], page_replies[i][j])

\* C4: when the search request fails (a status that is not 2xx, a timeout, a
\* transport error) web_search fails with that error, returns no response and
\* has fetched no page.
C4_SearchFailureIsFatal ==
    \A i \in WebSearches :
        (search_reply[i] # NoReply /\ RequestFailed(search_reply[i])) =>
            /\ pc[i] = "failed"
            /\ raised[i] \in {"HTTPStatusError", "ConnectTimeout", "ConnectError"}
            /\ returned[i] = <<>>
            /\ PageIssues(calls[i]) = {}
            /\ page_replies[i] = <<>>

C4_Witness ==
    \E i \in WebSearches :
        /\ pc[i] = "failed"
        /\ search_reply[i].kind = "response"
        /\ search_reply[i].status = 404
        /\ raised[i] = "HTTPStatusError"

\* C5: get_website never raises; it returns a JSON array of one object with a
\* "content" field, and when the page request failed (connection error,
\* timeout, status that is not 2xx) the object carries the URL and the content
\* is the failure message.
C5_GetWebsiteAlwaysReturnsContent ==
    \A i \in PageFetches :
        Ended(i) =>
            /\ pc[i] = "done"
            /\ Len(json_loads(returned[i])) = 1
            /\ "content" \in DOMAIN json_loads(returned[i])[1]
            /\ RequestFailed(page_replies[i][1]) =>
                  /\ json_loads(returned[i])[1]["url"] = url[i]
                  /\ json_loads(returned[i])[1]["content"]
                        = FailureText(url[i], page_replies[i][1])

\* C6: truncation to n >= 0 words keeps the first n words of the text, in
\* order, joined by single spaces and with nothing added, so the result never
\* has more than n words; truncating the result again changes nothing.
C6_TruncateIdempotentBounded ==
    /\ tx_op \in {"truncate", "truncate_twice"} =>
          /\ WordCount(tx_out) <= tx_limit
          /\ WordCount(tx_out) = Min(tx_limit, WordCount(tx_text))
          /\ \A k \in 1 .. WordCount(tx_out) : Word(tx_out, k) = Word(tx_text, k)
          /\ SingleSpaced(tx_out)
    /\ tx_op = "truncate_twice" => tx_again = tx_out

C6_Witness ==
    /\ tx_op = "truncate_twice"
    /\ tx_limit >= 1
    /\ WordCount(tx_text) > tx_limit
    /\ ~SingleSpaced(tx_text)
    /\ tx_again = tx_out

\* C7: the text format_text returns has no "other symbol" character, has its
\* whitespace runs collapsed to single spaces with none leading or trailing,
\* and format_text of it is the same text.
C7_FormatTextIdempotent ==
    /\ tx_op \in {"format", "format_twice"} =>
          /\ \A p \in 1 .. Len(tx_out) : ~IsSo(tx_out[p])
          /\ SingleSpaced(tx_out)
    /\ tx_op = "format_twice" => tx_again = tx_out

\* C8: the network calls of one web_search are issued one at a time and never
\* repeated: every call ends before the next is issued; a query that is not
\* blank issues exactly one search, first, with the stripped query; the page
\* fetches follow in the order of the results, one per result, at most
\* MAX_LINKS_IN_RESPONSE of them, and exactly one per selected result once the
\* response is returned.
C8_CallsSequentialNoRetry ==
    \A i \in WebSearches :
        LET log == calls[i] IN
        /\ \A p \in 1 .. Len(log) :
              IF p % 2 = 1 THEN log[p].ev = "issue"
              ELSE /\ log[p].ev = "done"
                   /\ log[p].call = log[p - 1].call
                   /\ log[p].arg = log[p - 1].arg
        /\ ~Blank(query[i]) =>
              /\ SearchIssues(log) = {1}
              /\ log[1].arg = ToStr(strip(query[i]))
        /\ PageIssues(log) # {} => Len(log) >= 2 /\ log[2] = Done("search", log[1].arg)
        /\ \A p \in PageIssues(log) :
              /\ (p - 1) \div 2 <= Selected(i)
              /\ log[p].arg = BackendResults(i)[(p - 1) \div 2]["href"]
        /\ Cardinality(SearchIssues(log)) + Cardinality(PageIssues(log))
              <= 1 + MAX_LINKS_IN_RESPONSE
        /\ pc[i] = "done" => Cardinality(PageIssues(log)) = Selected(i)

C8_Witness ==
    \E i \in WebSearches :
        /\ pc[i] = "done"
        /\ Len(BackendResults(i)) > MAX_LINKS_IN_RESPONSE
        /\ Len(calls[i]) = 2 * (1 + MAX_LINKS_IN_RESPONSE)
        /\ page_replies[i][1].kind = "exc"

\* C9: a web_search whose search succeeded and whose page fetches all returned
\* gives back a response in which each selected entry has the fetched text
\* under "text", has no "content", and has every other field as the backend
\* sent it, and in which every top-level field but "results" is as the backend
\* sent it; so for every result that carries a title, an "href" and either a
\* "content" or a "snippet".
C9_TextReplacesContent ==
    \A i \in WebSearches :
        ( /\ Ended(i)
          /\ Is2xx(search_reply[i])
          /\ raised[i] # "AttributeError"
          /\ \A j \in 1 .. Selected(i) : "href" \in DOMAIN BackendResults(i)[j] )
        =>
            /\ pc[i] = "done"
            /\ \A k \in DOMAIN search_reply[i].json \ {"results"} :
                  Response(i)[k] = search_reply[i].json[k]
            /\ \A j \in 1 .. Selected(i) :
                  LET sent == BackendResults(i)[j]
                      out == Response(i)["results"][j]
                  IN  /\ "text" \in DOMAIN out
                      /\ "content" \notin DOMAIN out
                      /\ \A k \in DOMAIN sent \ {"content", "text"} :
                            k \in DOMAIN out /\ out[k] = sent[k]

----------------------------------------------------------------------------
(* An invocation run alone on the replies it received *)

RECURSIVE loop_alone(_, _, _, _)
\* the turns i .. k-1 of the loop of web_search, one after the other
loop_alone(pl, i, k, replies) ==
    IF i >= k THEN Return(pl)
    ELSE LET turn == loop_body(pl, i, IF i + 1 <= Len(replies) THEN replies[i + 1]
                                      ELSE NoReply)
         IN  IF turn.ok THEN loop_alone(turn.val, i + 1, k, replies) ELSE turn

web_search_alone(q, reply, replies) ==
    IF query_is_empty(q) THEN Raise("ValueError", "The search query must not be empty.")
    ELSE LET found == _perform_search(reply) IN
         IF ~found.ok THEN found
         ELSE LET k == links_to_fetch(found.val)
                  looped == loop_alone(found.val, 0, k, replies)
              IN  IF ~looped.ok THEN looped
                  ELSE Return(json_dumps(keep_first(looped.val, k)))

SameOutcome(i, alone) ==
    /\ pc[i] = "done" => alone.ok /\ returned[i] = alone.val
    /\ pc[i] = "failed" => ~alone.ok /\ raised[i] = alone.exc

\* C10: however the invocations interleave, each invocation's result (its
\* response or its error) is the one the same call gives when run alone on the
\* replies this invocation received, and between two page fetches its payload
\* is the one its own fetches built.
C10_InvocationsAreIsolated ==
    /\ \A i \in WebSearches :
          /\ Ended(i) =>
                SameOutcome(i, web_search_alone(query[i], search_reply[i], page_replies[i]))
          /\ pc[i] = "loop" =>
                /\ loop_alone(search_reply[i].json, 0, idx[i], page_replies[i]).ok
                /\ payload[i]
                      = loop_alone(search_reply[i].json, 0, idx[i], page_replies[i]).val
    /\ \A i \in PageFetches :
          Ended(i) => SameOutcome(i, get_website(url[i], page_replies[i][1]))

C10_Witness ==
    \E i \in WebSearches, j \in WebSearches :
        /\ i # j
        /\ pc[i] = "done"
        /\ Len(Response(i)["results"]) = 2
        /\ pc[j] = "loop"
        /\ idx[j] = 1
        /\ page_replies[j][1] # page_replies[i][1]

====
